---- MODULE Spec2Model ----
(***************************************************************************)
(* Model of the icebreak_app chat session: the TeamProvider roster         *)
(* (src/src/contexts/TeamContext.tsx), the phase functions                 *)
(* (src/src/lib/database.ts) and the ChatPage turn handling                *)
(* (src/src/app/chat/page.tsx).                                            *)
(*                                                                         *)
(* Text is a sequence of one-character strings.  The Japanese characters   *)
(* of the source are written with ASCII names, one name per character:     *)
(* kanji in upper case ("I" = U+4EE5, "JOU" = U+4E0A, "OWA" = U+7D42,      *)
(* "NEGA" = U+9858), hiragana in lower case, and the separators of         *)
(* speakText's split as "KUTEN" (U+3002), "ZEN_EXCL" (U+FF01),             *)
(* "ZEN_QUES" (U+FF1F) and "LF" (newline).                                 *)
(*                                                                         *)
(* React state is modelled as the store (the latest value of every hook)   *)
(* and `rendered`, the values the last render put into the closures.  An   *)
(* async function keeps the closure it was created with for its whole      *)
(* run.                                                                    *)
(***************************************************************************)
EXTENDS Integers, Sequences, FiniteSets, TLC

\* ------------------------------------------------------------------ bounds
MaxAccepted == 2     \* sendMessage invocations that pass the guard, per session
MaxInFlight == 2     \* sendMessage invocations in flight at the same time
MaxTimers   == 2     \* pending setTimeout callbacks of recognition.onresult
MaxChunks   == 1     \* chunks of one streamed reply
MaxResults  == 4     \* final results the speech recognizer delivers, per session
MaxRows     == 1     \* rows of the setup form
MaxParts    == 3     \* fragments concatenated into an utterance (SpecPhase)
MaxDeep     == 6     \* sendMessage invocations that pass the guard (SpecDeep)
MaxDeepResults == 12 \* final results the speech recognizer delivers (SpecDeep)
MaxSetupRows == 3    \* rows of the setup form (SpecSetup)
MaxMsgs     == 3     \* messages handed to generatePrompt (SpecPrompt)
MaxText     == 4     \* characters of a drawn reply text (SpecSpeech)
MaxItems    == 3     \* calls of saveMessage (SpecStore)
MaxReads    == 2     \* calls of getHistory (SpecStore)
MaxUuid     == 4     \* the values uuidv4() is drawn from (SpecStore)
MaxReloads  == 2     \* reloads of the page (SpecReload)
MaxIntro    == 3     \* accepted utterances of the introductions (SpecIntro)
MaxIntroResults == 6 \* recognition results of the introductions (SpecIntro)
MaxPosts    == 3     \* POST requests to /api/tts (SpecTts)
MaxInFlightTts == 2  \* POST requests suspended at the same time (SpecTts)
MaxTicks    == 4     \* steps of the server's clock (SpecTts)
MaxUnits    == 4     \* sentence units of a text spoken with audio elements (SpecAudio)
MaxIndex    == 11    \* speakerIndex up to which the roster advances (SpecReload)

\* ------------------------------------------------------------------ text
Whitespace == {" ", "LF"}

RECURSIVE TrimStart(_)
TrimStart(s) ==
    IF s # <<>> /\ Head(s) \in Whitespace THEN TrimStart(Tail(s)) ELSE s

RECURSIVE TrimEnd(_)
TrimEnd(s) ==
    IF s # <<>> /\ s[Len(s)] \in Whitespace
    THEN TrimEnd(SubSeq(s, 1, Len(s) - 1)) ELSE s

\* String.prototype.trim
trim(s) == TrimEnd(TrimStart(s))

\* whether k occurs in s at position i (1-based)
MatchesAt(s, k, i) ==
    /\ i + Len(k) - 1 <= Len(s)
    /\ \A j \in 1..Len(k) : s[i + j - 1] = k[j]

\* String.prototype.indexOf, scanning from position i; 0 when absent
RECURSIVE indexOfFrom(_, _, _)
indexOfFrom(s, k, i) ==
    IF i + Len(k) - 1 > Len(s) THEN 0
    ELSE IF MatchesAt(s, k, i) THEN i
    ELSE indexOfFrom(s, k, i + 1)

\* String.prototype.includes
includes(s, k) == indexOfFrom(s, k, 1) # 0

\* ------------------------------------------------------------------ phases
Phases == {"intro_start", "intro_reacting", "intro_next_person",
           "icebreak_start", "random_theme", "deep_dive"}

KW_IJOU     == <<"I", "JOU", "de", "su">>
KW_OWARI    == <<"OWA", "wa", "ri", "de", "su">>
KW_YOROSHIKU == <<"yo", "ro", "shi", "ku">>
KW_ONEGAI   == <<"o", "NEGA", "i", "shi", "ma", "su">>

\* getNextPhase with startsWith in place of includes
getNextPhaseStartsWith(currentPhase, userMessage) ==
    CASE currentPhase = "intro_start"       -> "intro_reacting"
      [] currentPhase = "intro_reacting"    ->
            IF \/ MatchesAt(userMessage, KW_IJOU, 1)
               \/ MatchesAt(userMessage, KW_OWARI, 1)
               \/ MatchesAt(userMessage, KW_YOROSHIKU, 1)
               \/ MatchesAt(userMessage, KW_ONEGAI, 1)
            THEN "intro_next_person"
            ELSE "intro_reacting"
      [] currentPhase = "intro_next_person" -> "icebreak_start"
      [] currentPhase = "icebreak_start"    -> "random_theme"
      [] currentPhase = "random_theme"      -> "deep_dive"
      [] currentPhase = "deep_dive"         -> "deep_dive"
      [] OTHER                              -> currentPhase

getNextPhase(currentPhase, userMessage) ==
    CASE currentPhase = "intro_start"       -> "intro_reacting"
      [] currentPhase = "intro_reacting"    ->
            IF \/ includes(userMessage, KW_IJOU)
               \/ includes(userMessage, KW_OWARI)
               \/ includes(userMessage, KW_YOROSHIKU)
               \/ includes(userMessage, KW_ONEGAI)
            THEN "intro_next_person"
            ELSE "intro_reacting"
      [] currentPhase = "intro_next_person" -> "icebreak_start"
      [] currentPhase = "icebreak_start"    -> "random_theme"
      [] currentPhase = "random_theme"      -> "deep_dive"
      [] currentPhase = "deep_dive"         -> "deep_dive"
      [] OTHER                              -> currentPhase


\* ------------------------------------------------------------------ prompt
SYSTEM_PROMPT == <<"SYSTEM_PROMPT">>

getPhaseInstruction(phase) ==
    CASE phase = "intro_start"       -> <<"INSTR_intro_start">>
      [] phase = "intro_reacting"    -> <<"INSTR_intro_reacting">>
      [] phase = "intro_next_person" -> <<"INSTR_intro_next_person">>
      [] phase = "icebreak_start"    -> <<"INSTR_icebreak_start">>
      [] phase = "random_theme"      -> <<"INSTR_random_theme">>
      [] phase = "deep_dive"         -> <<"INSTR_deep_dive">>
      [] OTHER                       -> <<>>

toTurn(msg) ==
    [role |-> IF msg.role = "assistant" THEN "model" ELSE "user",
     text |-> msg.content]

\* generatePrompt looking at the last message, not at the last turn, before
\* it appends the empty user turn
generatePromptLastMessage(msgs, phase) ==
    LET prompt == <<[role |-> "model", text |-> SYSTEM_PROMPT],
                    [role |-> "model", text |-> getPhaseInstruction(phase)]>>
                  \o [i \in 1..Len(msgs) |-> toTurn(msgs[i])]
    IN  IF Len(msgs) > 0 /\ msgs[Len(msgs)].role = "assistant"
        THEN Append(prompt, [role |-> "user", text |-> <<>>])
        ELSE prompt

\* generatePrompt with a window of the two latest messages
generatePromptWindow(msgs, phase) ==
    LET recent == IF Len(msgs) > 2 THEN SubSeq(msgs, Len(msgs) - 1, Len(msgs))
                  ELSE msgs
        prompt == <<[role |-> "model", text |-> SYSTEM_PROMPT],
                    [role |-> "model", text |-> getPhaseInstruction(phase)]>>
                  \o [i \in 1..Len(recent) |-> toTurn(recent[i])]
    IN  IF Len(prompt) > 0 /\ prompt[Len(prompt)].role = "model"
        THEN Append(prompt, [role |-> "user", text |-> <<>>])
        ELSE prompt

generatePrompt(msgs, phase) ==
    LET prompt == <<[role |-> "model", text |-> SYSTEM_PROMPT],
                    [role |-> "model", text |-> getPhaseInstruction(phase)]>>
                  \o [i \in 1..Len(msgs) |-> toTurn(msgs[i])]
    IN  IF Len(prompt) > 0 /\ prompt[Len(prompt)].role = "model"
        THEN Append(prompt, [role |-> "user", text |-> <<>>])
        ELSE prompt

buildChatHistory(msgs, phase) ==
    LET history_ == <<[role |-> "model", text |-> SYSTEM_PROMPT],
                      [role |-> "model", text |-> getPhaseInstruction(phase)]>>
                    \o [i \in 1..Len(msgs) |-> toTurn(msgs[i])]
    IN  IF Len(history_) > 0 /\ history_[Len(history_)].role = "model"
        THEN Append(history_, [role |-> "user", text |-> <<>>])
        ELSE history_

\* ------------------------------------------------------------------ messages
INITIAL_MESSAGE ==
    <<"wate", "KUTEN", "koko", "KUTEN", "kyou", "KUTEN", "fudan", "KUTEN",
      "mazuha", "ZEN_QUES", "toka", "ZEN_QUES", " ", "hona", "ZEN_EXCL">>

FALLBACK_MESSAGE == <<"FALLBACK">>

\* a reducer that puts the new message in front
messageReducerPrepends(state, action) ==
    IF action.type = "ADD_MESSAGE"
    THEN [state EXCEPT !.messages = <<action.message>> \o state.messages]
    ELSE state

messageReducer(state, action) ==
    IF action.type = "ADD_MESSAGE"
    THEN [state EXCEPT !.messages = Append(state.messages, action.message)]
    ELSE state

\* messageDispatch applied to the latest message list
dispatch(msgs, action) == messageReducer([messages |-> msgs], action).messages

ADD_MESSAGE(m) == [type |-> "ADD_MESSAGE", message |-> m]

Msg(role, content, phase) == [role |-> role, content |-> content, phase |-> phase]

\* ------------------------------------------------------------------ speech
Separators == {"KUTEN", "ZEN_EXCL", "ZEN_QUES", "LF"}

\* String.prototype.split on /[KUTEN ZEN_EXCL ZEN_QUES LF]/: the pieces between
\* separators, empty pieces included
RECURSIVE split(_, _)
split(s, piece) ==
    IF s = <<>> THEN <<piece>>
    ELSE IF Head(s) \in Separators THEN <<piece>> \o split(Tail(s), <<>>)
    ELSE split(Tail(s), Append(piece, Head(s)))

RECURSIVE filterNonEmpty(_)
filterNonEmpty(ss) ==
    IF ss = <<>> THEN <<>>
    ELSE IF Head(ss) # <<>> THEN <<Head(ss)>> \o filterNonEmpty(Tail(ss))
    ELSE filterNonEmpty(Tail(ss))

\* the sentence units of speakText
sentences(text) ==
    LET pieces == split(text, <<>>)
    IN  filterNonEmpty([i \in 1..Len(pieces) |-> trim(pieces[i])])

\* ------------------------------------------------------------------ state
VARIABLES
    page,          \* "setup" or "chat": the route shown inside TeamProvider
    members,       \* TeamProvider: useState members
    speakerIndex,  \* TeamProvider: useState speakerIndex
    userMessage,   \* ChatPage: useState userMessage
    isLoading,     \* ChatPage: useState isLoading
    isStreaming,   \* ChatPage: useState isStreaming
    isSpeaking,    \* ChatPage: useState isSpeaking
    isListening,   \* ChatPage: useState isListening
    genAI,         \* ChatPage: useState genAI (FALSE is null)
    currentPhase,  \* ChatPage: useState currentPhase
    messages,      \* ChatPage: useReducer messageState.messages
    rendered,      \* what the last render of ChatPage put into its closures
    recognition,   \* recognitionRef.current: the closure its onresult holds
    timers,        \* pending setTimeout(() => sendMessage(), 500), oldest first
    calls,         \* sendMessage invocations suspended at an await
    opening,       \* the speakText(INITIAL_MESSAGE) run of the opening effect
    synthQueue,    \* speechSynthesis: utterances spoken and not yet ended
    results,       \* final results delivered by the recognizer so far
    importing,     \* the dynamic import of initializeGeminiAI is pending
    voicesLoaded,  \* speechSynthesis.getVoices() is non-empty
    accepted,      \* sendMessage invocations that passed the guard so far
    phaseCall,     \* one call of getNextPhase: its arguments and what it returned
    form,          \* SetupPage: useState members, the rows of the form
    promptCall,    \* one call of generatePrompt and buildChatHistory
    speakCall,     \* one run of speakText's sentence splitting
    table,         \* the items of the DynamoDB table ChatHistory, in the order put
    history,       \* what the calls of getHistory returned, oldest first
    now,           \* Date.now() of the callers of saveMessage
    localStorage,  \* the browser's localStorage: team_members and speaker_index
    provider,      \* TeamProvider as last committed: mounted, and the values rendered
    beforeReload,  \* the roster state at the latest reload of the page
    audio,         \* one run of the speakText that plays the audio of /api/tts
    ttsCache,      \* api/tts: the entries of the Map ttsCache, in the Map's order
    ttsNow,        \* api/tts: Date.now() of the server
    ttsRequests,   \* api/tts: the POST requests suspended at an await
    ttsReply,      \* api/tts: the latest response sent
    voicevoxConnectionStatus,  \* api/tts: the cached result of the version check
    advances       \* goToNextSpeaker calls since initializeMembers

teamVars == <<members, speakerIndex>>
chatVars == <<userMessage, isLoading, isStreaming, isSpeaking, isListening,
              genAI, currentPhase, messages>>
vars == <<page, members, speakerIndex, userMessage, isLoading,
          isStreaming, isSpeaking, isListening, genAI, currentPhase, messages,
          rendered, recognition, timers, calls, opening, synthQueue,
          results, importing, voicesLoaded, accepted, phaseCall, advances,
          form, promptCall, speakCall, table, history, now,
          localStorage, provider, beforeReload, audio, ttsCache, ttsNow,
          ttsRequests, ttsReply, voicevoxConnectionStatus>>

\* the session: everything TeamProvider and ChatPage hold
sessionVars == <<page, members, speakerIndex, userMessage, isLoading,
                 isStreaming, isSpeaking, isListening, genAI, currentPhase,
                 messages, rendered, recognition, timers, calls, opening,
                 synthQueue, results, importing, voicesLoaded, accepted,
                 advances>>

\* the library functions followed on their own
\* the browser and the server around the session, followed on their own
reloadVars == <<localStorage, provider, beforeReload>>
ttsVars == <<ttsCache, ttsNow, ttsRequests, ttsReply, voicevoxConnectionStatus>>
extVars == <<reloadVars, audio, ttsVars>>

libVars == <<promptCall, speakCall, table, history, now, extVars>>

\* the values sendMessage's useCallback closes over (its dependency list;
\* goToNextSpeaker is TeamProvider's closure of that render, speakerIndex in it)
Closure ==
    [userMessage  |-> userMessage,
     isLoading    |-> isLoading,
     genAI        |-> genAI,
     messages     |-> messages,
     currentPhase |-> currentPhase,
     speakerIndex |-> speakerIndex]

Render0 ==
    [mounted |-> FALSE, cl |-> Closure, members |-> members,
     isListening |-> isListening, isSpeaking |-> isSpeaking]

NoRecognition == [exists |-> FALSE]

NoSpeech == [pc |-> "none", units |-> <<>>]

\* the utterances the speech recognizer delivers in a session
U_PLAIN == <<"ha", "i">>
U_CLOSE == <<"yo", "ro", "shi", "ku">>
U_BLANK == <<" ">>
Transcripts == {U_PLAIN, U_CLOSE, U_BLANK}

\* one chunk of a streamed reply
CHUNK == <<"e", "e", "ne", "KUTEN">>

\* no call of getNextPhase is being followed
NoPhaseCall == [currentPhase |-> "intro_start", userMessage |-> <<>>, result |-> "none"]

\* TeamProvider and ChatPage after construction
InitSession ==
    /\ page = "setup"
    /\ members = <<>>
    /\ speakerIndex = -1
    /\ userMessage = <<>>
    /\ isLoading = FALSE
    /\ isStreaming = FALSE
    /\ isSpeaking = FALSE
    /\ isListening = FALSE
    /\ genAI = FALSE
    /\ currentPhase = "intro_start"
    /\ messages = <<>>
    /\ rendered = Render0
    /\ recognition = NoRecognition
    /\ timers = <<>>
    /\ calls = {}
    /\ opening = NoSpeech
    /\ synthQueue = <<>>
    /\ results = 0
    /\ importing = FALSE
    /\ voicesLoaded = FALSE
    /\ accepted = 0
    /\ advances = 0

\* SetupPage's form as it is first shown: five empty rows
EmptyRow == [name |-> "", university |-> ""]
DefaultForm == <<EmptyRow, EmptyRow, EmptyRow, EmptyRow, EmptyRow>>

NoPromptCall == [messages |-> <<>>, phase |-> "intro_start", done |-> FALSE,
                 prompt |-> <<>>, chatHistory |-> <<>>]

NoSpeakCall == [text |-> <<>>, done |-> FALSE, units |-> <<>>]

\* nothing outside the session is being followed
FormIdle == form = DefaultForm
PhaseIdle == phaseCall = NoPhaseCall
PromptIdle == promptCall = NoPromptCall
SpeakIdle == speakCall = NoSpeakCall
StoreIdle == table = <<>> /\ history = <<>> /\ now = 0

\* localStorage.getItem of a key that was never set
Absent == <<"null">>

NoStorage == [team_members |-> Absent, speaker_index |-> Absent]

\* TeamProvider before its first commit
NoProvider == [mounted |-> FALSE, members |-> <<>>, speakerIndex |-> -1]

NoReload == [reloads |-> 0, members |-> <<>>, speakerIndex |-> -1]

ReloadIdle ==
    localStorage = NoStorage /\ provider = NoProvider /\ beforeReload = NoReload

\* no speakText with audio elements is running
NoAudio == [pc |-> "none", units |-> 0, audioObjects |-> <<>>]

AudioIdle == audio = NoAudio

\* Date.now() when the module api/tts/route.ts is loaded, in ms: later than
\* CONNECTION_CHECK_INTERVAL after the epoch, as every real clock is
ServerStart == 1000000

\* no response sent yet; count is the number of responses sent
NoReply == [count |-> 0, status |-> 0, cache |-> "none", age |-> 0, text |-> 0]

\* the module api/tts/route.ts as loaded
TtsIdle ==
    /\ ttsCache = <<>>
    /\ ttsNow = ServerStart
    /\ ttsRequests = {}
    /\ ttsReply = NoReply
    /\ voicevoxConnectionStatus = [isConnected |-> FALSE, lastChecked |-> 0]

ExtIdle == ReloadIdle /\ AudioIdle /\ TtsIdle

Init ==
    /\ InitSession
    /\ FormIdle
    /\ PhaseIdle
    /\ PromptIdle
    /\ SpeakIdle
    /\ StoreIdle /\ ExtIdle

\* ------------------------------------------------------------------ setup page
Names == {"", "yamada"}
Universities == {"", "todai"}
FormRows == UNION {[1..n -> [name : Names, university : Universities]] : n \in 1..MaxRows}

RECURSIVE filterValid(_)
filterValid(rows) ==
    IF rows = <<>> THEN <<>>
    ELSE IF Head(rows).name # "" /\ Head(rows).university # ""
         THEN <<Head(rows)>> \o filterValid(Tail(rows))
         ELSE filterValid(Tail(rows))

\* TeamProvider.initializeMembers: the new roster state
initializeMembers(newMembers) == [members |-> newMembers, speakerIndex |-> 0]

\* goToNextSpeaker as setSpeakerIndex(speakerIndex + 1): the value of the
\* render that created the closure, not the latest one
goToNextSpeakerStale(st) == st.rendered + 1

\* goToNextSpeaker stepping over a participant
goToNextSpeakerSkip(st) == st.prev + 2

\* TeamProvider.goToNextSpeaker: setSpeakerIndex(prev => prev + 1).  st.prev is
\* the latest state, st.rendered the speakerIndex of the render that created
\* this closure.
goToNextSpeaker(st) == st.prev + 1

\* SetupPage.handleSubmit; router.push('/chat') mounts ChatPage with its
\* initial hook state
handleSubmit(rows) ==
    /\ page = "setup"
    /\ LET validMembers == filterValid(rows)
       IN  IF Len(validMembers) > 0
           THEN /\ members' = initializeMembers(validMembers).members
                /\ speakerIndex' = initializeMembers(validMembers).speakerIndex
                /\ advances' = 0
                /\ page' = "chat"
           ELSE UNCHANGED <<members, speakerIndex, advances, page>>
    /\ form' = rows
    /\ UNCHANGED <<libVars, phaseCall, chatVars, rendered, recognition, timers, calls,
                   opening, synthQueue, results, importing, voicesLoaded, accepted>>

\* ------------------------------------------------------------------ render
\* No render is pending.  React schedules the re-render at the state update
\* and commits it, with its effects, before the next event, timeout or promise
\* continuation is handled: every other step of the page waits for it.
RenderIsCurrent ==
    rendered = [mounted |-> TRUE, cl |-> Closure, members |-> members,
                isListening |-> isListening, isSpeaking |-> isSpeaking]

\* One render of ChatPage with the effects it commits: initializeGeminiAI (on
\* mount), the redirect effect, the opening-message effect and the recognition
\* effect, which replaces the recognition object whenever sendMessage changed.
Render ==
    /\ page = "chat"
    /\ LET new == [mounted |-> TRUE, cl |-> Closure, members |-> members,
                   isListening |-> isListening, isSpeaking |-> isSpeaking]
           mount == ~rendered.mounted
           openingRuns ==
               /\ mount \/ new.members # rendered.members
                        \/ new.cl.messages # rendered.cl.messages
               /\ Len(new.members) > 0
               /\ Len(new.cl.messages) = 0
       IN  /\ new # rendered
           /\ rendered' = new
           /\ importing' = IF mount THEN TRUE ELSE importing
           /\ page' = IF Len(new.members) = 0 THEN "setup" ELSE page
           /\ IF openingRuns
              THEN /\ messages' = dispatch(messages,
                        ADD_MESSAGE(Msg("assistant", INITIAL_MESSAGE, "intro_start")))
                   /\ isSpeaking' = TRUE
                   /\ IF voicesLoaded
                      THEN /\ opening' = [pc |-> "speaking",
                                          units |-> sentences(INITIAL_MESSAGE)]
                           /\ synthQueue' = Append(synthQueue, 0)
                      ELSE /\ opening' = [pc |-> "voices",
                                          units |-> sentences(INITIAL_MESSAGE)]
                           /\ synthQueue' = synthQueue
              ELSE UNCHANGED <<messages, isSpeaking, opening, synthQueue>>
           /\ recognition' =
                IF mount \/ new.cl # rendered.cl
                THEN [exists |-> TRUE, cl |-> new.cl, started |-> FALSE]
                ELSE recognition
    /\ UNCHANGED <<form, libVars, phaseCall, results, teamVars, userMessage, isLoading, isStreaming,
                   isListening, genAI, currentPhase, timers, calls,
                   voicesLoaded, accepted, advances>>

\* initializeGeminiAI ends: setGenAI after the await import(...), or no
\* provider (NEXT_PUBLIC_GEMINI_API_KEY is not set, or the import throws)
ImportDone ==
    /\ importing
    /\ RenderIsCurrent
    /\ importing' = FALSE
    /\ genAI' \in {TRUE, FALSE}
    /\ UNCHANGED <<form, libVars, phaseCall, results, page, teamVars, userMessage, isLoading, isStreaming,
                   isSpeaking, isListening, currentPhase, messages, rendered,
                   recognition, timers, calls, opening, synthQueue,
                   voicesLoaded, accepted, advances>>

\* ------------------------------------------------------------------ recognition
toggleListening ==
    /\ page = "chat"
    /\ rendered.mounted
    /\ RenderIsCurrent
    /\ recognition.exists
    /\ IF rendered.isListening
       THEN /\ recognition' = [recognition EXCEPT !.started = FALSE]
            /\ isListening' = FALSE
       ELSE /\ recognition' = [recognition EXCEPT !.started = TRUE]
            /\ isListening' = TRUE
    /\ UNCHANGED <<form, libVars, phaseCall, page, teamVars, userMessage, isLoading, isStreaming,
                   isSpeaking, genAI, currentPhase, messages, rendered, timers,
                   calls, opening, synthQueue, results, importing, voicesLoaded,
                   accepted, advances>>

\* recognition.onresult with results[0].isFinal: the timeout keeps the
\* sendMessage this recognition object was created with
onresult(transcript, limit) ==
    /\ page = "chat"
    /\ RenderIsCurrent
    /\ recognition.exists
    /\ recognition.started
    /\ Len(timers) < MaxTimers
    /\ results < limit
    /\ results' = results + 1
    /\ userMessage' = transcript
    /\ timers' = Append(timers, recognition.cl)
    /\ UNCHANGED <<form, libVars, phaseCall, page, teamVars, isLoading, isStreaming, isSpeaking,
                   isListening, genAI, currentPhase, messages, rendered,
                   recognition, calls, opening, synthQueue, importing,
                   voicesLoaded, accepted, advances>>

\* ------------------------------------------------------------------ sendMessage
\* a guard that looks at isLoading only
rejectsLoadingOnly(cl) == cl.isLoading

\* sendMessage's first statement: `if (!userMessage.trim() || isLoading) return`
rejects(cl) == trim(cl.userMessage) = <<>> \/ cl.isLoading

\* lines 317-324 and the finally: the phase and roster update after speakText
commit(c) ==
    LET nextPhase == getNextPhase(c.cl.currentPhase, c.cl.userMessage)
    IN  /\ currentPhase' = IF nextPhase # c.cl.currentPhase
                           THEN nextPhase ELSE currentPhase
        /\ IF nextPhase = "intro_reacting" \/ nextPhase = "intro_next_person"
           THEN /\ speakerIndex' = goToNextSpeaker(
                        [prev |-> speakerIndex, rendered |-> c.cl.speakerIndex])
                /\ advances' = advances + 1
           ELSE UNCHANGED <<speakerIndex, advances>>
        /\ isLoading' = FALSE
        /\ calls' = calls \ {c}

\* a finally that also runs the phase and roster update
catchFinallyCommits(c) ==
    /\ commit(c)
    /\ UNCHANGED messages

\* the catch and finally of sendMessage for a rejected or throwing model call
catchFinally(c) ==
    /\ isLoading' = FALSE
    /\ calls' = calls \ {c}
    /\ UNCHANGED <<currentPhase, speakerIndex, advances, messages>>

\* a timeout of onresult fires and calls the sendMessage it holds
TimerFires(limit) ==
    /\ page = "chat"
    /\ RenderIsCurrent
    /\ timers # <<>>
    /\ timers' = Tail(timers)
    /\ LET cl == Head(timers)
           userMessageData == Msg("user", cl.userMessage, cl.currentPhase)
       IN  IF rejects(cl)
           THEN UNCHANGED <<userMessage, isLoading, messages, calls, accepted>>
           ELSE IF cl.genAI = FALSE
           THEN /\ accepted < limit
                /\ accepted' = accepted + 1
                /\ messages' = dispatch(dispatch(messages, ADD_MESSAGE(userMessageData)),
                        ADD_MESSAGE(Msg("assistant", FALLBACK_MESSAGE, cl.currentPhase)))
                /\ userMessage' = <<>>
                /\ UNCHANGED <<isLoading, calls>>
           ELSE /\ accepted < limit
                /\ Cardinality(calls) < MaxInFlight
                /\ isLoading' = TRUE
                /\ messages' = dispatch(messages, ADD_MESSAGE(userMessageData))
                /\ userMessage' = <<>>
                /\ accepted' = accepted + 1
                /\ calls' = calls \cup
                     {[id     |-> accepted + 1,
                       cl     |-> cl,
                       pc     |-> "awaitStream",
                       prompt |-> generatePrompt(cl.messages, cl.currentPhase),
                       full   |-> <<>>,
                       chunks |-> 0,
                       units  |-> <<>>]}
    /\ UNCHANGED <<form, libVars, phaseCall, page, teamVars, isStreaming, isSpeaking, isListening,
                   genAI, currentPhase, rendered, recognition, opening,
                   synthQueue, results, importing, voicesLoaded, advances>>

\* await model.generateContentStream(...) resolves
StreamOpens(c) ==
    /\ c.pc = "awaitStream"
    /\ RenderIsCurrent
    /\ isStreaming' = TRUE
    /\ calls' = (calls \ {c}) \cup {[c EXCEPT !.pc = "streaming"]}
    /\ UNCHANGED <<form, libVars, phaseCall, page, teamVars, userMessage, isLoading, isSpeaking,
                   isListening, genAI, currentPhase, messages, rendered,
                   recognition, timers, opening, synthQueue, results, importing,
                   voicesLoaded, accepted, advances>>

\* one more chunk of result.stream
StreamChunk(c) ==
    /\ c.pc = "streaming"
    /\ RenderIsCurrent
    /\ c.chunks < MaxChunks
    /\ calls' = (calls \ {c}) \cup
                  {[c EXCEPT !.full = c.full \o CHUNK, !.chunks = c.chunks + 1]}
    /\ UNCHANGED <<form, libVars, phaseCall, page, teamVars, chatVars, rendered, recognition,
                   timers, opening, synthQueue, results, importing, voicesLoaded,
                   accepted, advances>>

\* generateContentStream rejects, or the stream throws at its next chunk
StreamFails(c) ==
    /\ c.pc \in {"awaitStream", "streaming"}
    /\ RenderIsCurrent
    /\ catchFinally(c)
    /\ UNCHANGED <<form, libVars, phaseCall, page, members, userMessage, isStreaming, isSpeaking,
                   isListening, genAI, rendered, recognition, timers, opening,
                   synthQueue, results, importing, voicesLoaded, accepted>>

\* the stream ends: the assistant message is appended and speakText(fullResponse)
\* starts; an empty reply makes speakText return at once, and so does a reply
\* without a sentence unit once the voices are there
StreamEnds(c) ==
    /\ c.pc = "streaming"
    /\ RenderIsCurrent
    /\ isStreaming' = FALSE
    /\ messages' = dispatch(messages,
            ADD_MESSAGE(Msg("assistant", c.full, c.cl.currentPhase)))
    /\ LET units == sentences(c.full)
       IN  IF c.full = <<>>
           THEN /\ commit(c)
                /\ UNCHANGED <<isSpeaking, synthQueue>>
           ELSE IF voicesLoaded /\ units = <<>>
           THEN /\ commit(c)
                /\ isSpeaking' = FALSE
                /\ UNCHANGED synthQueue
           ELSE IF voicesLoaded
           THEN /\ isSpeaking' = TRUE
                /\ synthQueue' = Append(synthQueue, c.id)
                /\ calls' = (calls \ {c}) \cup
                              {[c EXCEPT !.pc = "speaking", !.units = units]}
                /\ UNCHANGED <<currentPhase, speakerIndex, advances, isLoading>>
           ELSE /\ isSpeaking' = TRUE
                /\ calls' = (calls \ {c}) \cup
                              {[c EXCEPT !.pc = "voices", !.units = units]}
                /\ UNCHANGED <<currentPhase, speakerIndex, advances, isLoading,
                               synthQueue>>
    /\ UNCHANGED <<form, libVars, phaseCall, results, page, members, userMessage, isListening, genAI,
                   rendered, recognition, timers, opening, importing,
                   voicesLoaded, accepted>>

\* ------------------------------------------------------------------ speakText
\* the voiceschanged event resolves waitForVoices of the opening speakText
OpeningVoices ==
    /\ opening.pc = "voices"
    /\ RenderIsCurrent
    /\ voicesLoaded' = TRUE
    /\ IF opening.units = <<>>
       THEN /\ opening' = [pc |-> "done", units |-> <<>>]
            /\ isSpeaking' = FALSE
            /\ UNCHANGED synthQueue
       ELSE /\ opening' = [opening EXCEPT !.pc = "speaking"]
            /\ synthQueue' = Append(synthQueue, 0)
            /\ UNCHANGED isSpeaking
    /\ UNCHANGED <<form, libVars, phaseCall, results, page, teamVars, userMessage, isLoading, isStreaming,
                   isListening, genAI, currentPhase, messages, rendered,
                   recognition, timers, calls, importing, accepted, advances>>

\* a speakText whose loop ends at the first unit that ended or failed
OpeningUnitDoneAborts ==
    /\ opening.pc = "speaking"
    /\ RenderIsCurrent
    /\ synthQueue # <<>> /\ Head(synthQueue) = 0
    /\ opening' = [pc |-> "done", units |-> <<>>]
    /\ isSpeaking' = FALSE
    /\ synthQueue' = Tail(synthQueue)
    /\ UNCHANGED <<form, libVars, phaseCall, page, teamVars, userMessage, isLoading, isStreaming,
                   isListening, genAI, currentPhase, messages, rendered,
                   recognition, timers, calls, results, importing, voicesLoaded,
                   accepted, advances>>

\* onend or onerror of the opening speakText's current utterance
OpeningUnitDone ==
    /\ opening.pc = "speaking"
    /\ RenderIsCurrent
    /\ synthQueue # <<>> /\ Head(synthQueue) = 0
    /\ LET rest == Tail(opening.units)
       IN  IF rest = <<>>
           THEN /\ opening' = [pc |-> "done", units |-> <<>>]
                /\ isSpeaking' = FALSE
                /\ synthQueue' = Tail(synthQueue)
           ELSE /\ opening' = [opening EXCEPT !.units = rest]
                /\ synthQueue' = Append(Tail(synthQueue), 0)
                /\ UNCHANGED isSpeaking
    /\ UNCHANGED <<form, libVars, phaseCall, page, teamVars, userMessage, isLoading, isStreaming,
                   isListening, genAI, currentPhase, messages, rendered,
                   recognition, timers, calls, results, importing, voicesLoaded,
                   accepted, advances>>

\* the voiceschanged event resolves waitForVoices of a reply's speakText
ReplyVoices(c) ==
    /\ c.pc = "voices"
    /\ RenderIsCurrent
    /\ voicesLoaded' = TRUE
    /\ IF c.units = <<>>
       THEN /\ commit(c)
            /\ isSpeaking' = FALSE
            /\ UNCHANGED synthQueue
       ELSE /\ calls' = (calls \ {c}) \cup {[c EXCEPT !.pc = "speaking"]}
            /\ synthQueue' = Append(synthQueue, c.id)
            /\ UNCHANGED <<currentPhase, speakerIndex, advances, isLoading,
                           isSpeaking>>
    /\ UNCHANGED <<form, libVars, phaseCall, results, page, members, userMessage, isStreaming, isListening,
                   genAI, messages, rendered, recognition, timers, opening,
                   importing, accepted>>

\* onend or onerror of a reply's current utterance; after the last one
\* speakText returns and sendMessage goes on to the phase update
ReplyUnitDone(c) ==
    /\ c.pc = "speaking"
    /\ RenderIsCurrent
    /\ synthQueue # <<>> /\ Head(synthQueue) = c.id
    /\ LET rest == Tail(c.units)
       IN  IF rest = <<>>
           THEN /\ commit(c)
                /\ isSpeaking' = FALSE
                /\ synthQueue' = Tail(synthQueue)
           ELSE /\ calls' = (calls \ {c}) \cup {[c EXCEPT !.units = rest]}
                /\ synthQueue' = Append(Tail(synthQueue), c.id)
                /\ UNCHANGED <<currentPhase, speakerIndex, advances, isLoading,
                               isSpeaking>>
    /\ UNCHANGED <<form, libVars, phaseCall, page, members, userMessage, isStreaming, isListening,
                   genAI, messages, rendered, recognition, timers, opening,
                   results, importing, voicesLoaded, accepted>>

\* the "stop speaking" button, shown while the rendered isSpeaking is true
stopSpeaking ==
    /\ page = "chat"
    /\ rendered.mounted /\ rendered.isSpeaking
    /\ RenderIsCurrent
    /\ synthQueue # <<>>
    /\ isSpeaking' = FALSE
    /\ UNCHANGED <<form, libVars, phaseCall, page, teamVars, userMessage, isLoading, isStreaming,
                   isListening, genAI, currentPhase, messages, rendered,
                   recognition, timers, calls, opening, synthQueue, results, importing,
                   voicesLoaded, accepted, advances>>

\* ------------------------------------------------------------------ specification
Next ==
    \/ \E rows \in FormRows : handleSubmit(rows)
    \/ Render
    \/ ImportDone
    \/ toggleListening
    \/ \E t \in Transcripts : onresult(t, MaxResults)
    \/ TimerFires(MaxAccepted)
    \/ \E c \in calls : StreamOpens(c)
    \/ \E c \in calls : StreamChunk(c)
    \/ \E c \in calls : StreamFails(c)
    \/ \E c \in calls : StreamEnds(c)
    \/ OpeningVoices
    \/ OpeningUnitDone
    \/ \E c \in calls : ReplyVoices(c)
    \/ \E c \in calls : ReplyUnitDone(c)
    \/ stopSpeaking

Spec == Init /\ [][Next]_vars

TypeOK ==
    /\ page \in {"setup", "chat"}
    /\ currentPhase \in Phases
    /\ speakerIndex \in Int
    /\ accepted \in Nat

\* ------------------------------------------------------------------ getNextPhase alone
\* pieces of utterances: the closing keywords, parts of them and other text
Fragments ==
    {KW_IJOU, KW_OWARI, KW_YOROSHIKU, KW_ONEGAI,
     <<"I", "JOU">>, <<"de", "su">>, <<"ha", "i">>, <<" ">>}

RECURSIVE Concats(_)
Concats(n) ==
    IF n = 0 THEN {<<>>}
    ELSE Concats(n - 1) \cup {u \o f : u \in Concats(n - 1), f \in Fragments}

Utterances == Concats(MaxParts)

InitPhase ==
    /\ InitSession
    /\ FormIdle /\ PromptIdle /\ SpeakIdle /\ StoreIdle /\ ExtIdle
    /\ phaseCall \in [currentPhase : Phases, userMessage : Utterances,
                      result : {"none"}]

\* getNextPhase is called with the arguments drawn and returns
CallGetNextPhase ==
    /\ phaseCall.result = "none"
    /\ phaseCall' = [phaseCall EXCEPT
                        !.result = getNextPhase(phaseCall.currentPhase,
                                                phaseCall.userMessage)]
    /\ UNCHANGED <<page, teamVars, chatVars, rendered, recognition, timers,
                   calls, opening, synthQueue, results, importing,
                   voicesLoaded, accepted, advances, form, libVars>>

NextPhase == CallGetNextPhase

SpecPhase == InitPhase /\ [][NextPhase]_vars

\* ------------------------------------------------------------------ a long session
\* The session with one participant, a provider, closing-keyword utterances
\* only and replies that stream no text, followed for MaxDeep utterances.
NextDeep ==
    \/ handleSubmit(<<[name |-> "yamada", university |-> "todai"]>>)
    \/ Render
    \/ (ImportDone /\ genAI' = TRUE)
    \/ toggleListening
    \/ onresult(U_CLOSE, MaxDeepResults)
    \/ TimerFires(MaxDeep)
    \/ \E c \in calls : StreamOpens(c)
    \/ \E c \in calls : StreamEnds(c)

SpecDeep == Init /\ [][NextDeep]_vars

\* ------------------------------------------------------------------ steps of sendMessage
\* sendMessage returns from its no-provider branch (lines 221-252)
NoProviderStep ==
    /\ timers # <<>>
    /\ ~rejects(Head(timers))
    /\ Head(timers).genAI = FALSE
    /\ TimerFires(MaxAccepted)

\* sendMessage ends in its catch: the provider call failed
ProviderFailsStep == \E c \in calls : StreamFails(c)

FailureStep == NoProviderStep \/ ProviderFailsStep

\* invocation c of sendMessage returns from speakText and runs lines 317-324
CommitStep(c) ==
    /\ StreamEnds(c) \/ ReplyVoices(c) \/ ReplyUnitDone(c)
    /\ calls' = calls \ {c}

\* ------------------------------------------------------------------ properties
\* C1: sendMessage advances the roster only for an utterance whose computed
\* next phase is intro_next_person; an invocation whose next phase is anything
\* else (intro_reacting included) leaves speakerIndex unchanged.
C1_AdvanceOnlyAtNextPerson ==
    [][\A c \in calls :
          (/\ CommitStep(c)
           /\ getNextPhase(c.cl.currentPhase, c.cl.userMessage)
                # "intro_next_person")
          => speakerIndex' = speakerIndex]_vars

\* C2: a sendMessage invoked while another invocation's reply is in flight has
\* no observable effect: no message appended, no model request, phase and
\* speakerIndex unchanged.
C2_SecondCallIsNoOp ==
    [][(calls # {} /\ TimerFires(MaxAccepted))
          => UNCHANGED <<messages, calls, currentPhase, speakerIndex>>]_vars

\* C3: a sendMessage that finds no provider, or whose provider call fails
\* before or during streaming, leaves currentPhase and speakerIndex as they
\* were; on the chat page they change only in a step where an invocation
\* returns from speakText on the success path.
C3_FailureKeepsPhaseAndRoster ==
    [][/\ FailureStep
            => (currentPhase' = currentPhase /\ speakerIndex' = speakerIndex)
       /\ (/\ page = "chat"
           /\ currentPhase' # currentPhase \/ speakerIndex' # speakerIndex)
            => \E c \in calls : CommitStep(c)]_vars

\* a provider call has failed: the log ends with the user message of an
\* invocation that is over
C3_Witness ==
    /\ page = "chat"
    /\ calls = {}
    /\ ~isLoading
    /\ messages # <<>>
    /\ messages[Len(messages)].role = "user"

\* C4: in both failure cases of sendMessage the step that ends it appends the
\* fallback assistant message to the log.
C4_FailureAppendsFallback ==
    [][FailureStep
          => /\ Len(messages') > Len(messages)
             /\ messages'[Len(messages')].role = "assistant"
             /\ messages'[Len(messages')].content = FALLBACK_MESSAGE]_vars

\* C5: while the reply of an invocation is being played (its assistant message
\* is in the log), the sendMessage of the current render does not reject a
\* non-blank utterance.
C5_AcceptsDuringPlayback ==
    \A c \in calls :
        (c.pc \in {"voices", "speaking"} /\ RenderIsCurrent)
        => ~rejects([rendered.cl EXCEPT !.userMessage = U_PLAIN])

\* the closing keywords of the transition table
ClosingKeywords == {KW_IJOU, KW_OWARI, KW_YOROSHIKU, KW_ONEGAI}

\* u contains keyword k as a substring
Contains(u, k) ==
    \E i \in 1..Len(u) : \E j \in i..Len(u) : SubSeq(u, i, j) = k

\* the transition table of the phases
TransitionTable(p, u) ==
    IF p = "intro_start" THEN "intro_reacting"
    ELSE IF p = "intro_reacting"
         THEN IF \E k \in ClosingKeywords : Contains(u, k)
              THEN "intro_next_person" ELSE "intro_reacting"
    ELSE IF p = "intro_next_person" THEN "icebreak_start"
    ELSE IF p = "icebreak_start" THEN "random_theme"
    ELSE "deep_dive"

\* C6: for every phase and utterance getNextPhase returns the phase of the
\* transition table: the fixed successor outside intro_reacting, and from
\* intro_reacting intro_next_person exactly when the utterance contains a
\* closing keyword as a substring.
C6_GetNextPhaseIsTable ==
    phaseCall.result # "none"
    => phaseCall.result
         = TransitionTable(phaseCall.currentPhase, phaseCall.userMessage)

\* getNextPhase has returned intro_next_person for an utterance whose closing
\* keyword is not at its start
C6_Witness ==
    /\ phaseCall.currentPhase = "intro_reacting"
    /\ phaseCall.result = "intro_next_person"
    /\ \A k \in ClosingKeywords : ~MatchesAt(phaseCall.userMessage, k, 1)

\* C7: once currentPhase is deep_dive it stays deep_dive, whatever is
\* processed afterwards.
C7_DeepDiveIsFixed ==
    [][currentPhase = "deep_dive" => currentPhase' = "deep_dive"]_vars

\* C8: with one participant, when the phase has come to intro_next_person the
\* roster has been advanced exactly once: speakerIndex is 1.
C8_OneParticipantIndex ==
    (page = "chat" /\ Len(members) = 1 /\ currentPhase = "intro_next_person")
    => speakerIndex = 1

\* C9 as stated: in every reachable state -1 <= speakerIndex < number of
\* participants.
C9_IndexBelowLength ==
    -1 <= speakerIndex /\ speakerIndex < Len(members)

\* C9, amended: in every reachable state -1 <= speakerIndex, and speakerIndex
\* is at most the number of utterances sendMessage has accepted; the number
\* of participants does not bound it.
C9_IndexBounds ==
    -1 <= speakerIndex /\ speakerIndex <= accepted

\* the roster is exhausted: the cursor is past the last participant
C9_Witness ==
    /\ page = "chat"
    /\ accepted > 0
    /\ speakerIndex >= Len(members)

\* C10: after initializeMembers set speakerIndex to 0, speakerIndex equals
\* the number of goToNextSpeaker calls made since, however the calls
\* interleave with renders, and no step of the chat page decreases it.
C10_IndexCountsAdvances ==
    /\ [](page = "chat" => speakerIndex = advances)
    /\ [][(page = "chat" /\ page' = "chat")
             => speakerIndex' >= speakerIndex]_vars

\* goToNextSpeaker has been called twice
C10_Witness ==
    /\ page = "chat"
    /\ advances = 2
    /\ speakerIndex = 2

\* ------------------------------------------------------------------ the setup form alone
SetupNames == {"", "yamada", "sato"}

\* the forms addMember, removeMember and updateMember can leave on the page
SetupForms ==
    UNION {[1..n -> [name : SetupNames, university : Universities]] :
             n \in 0..MaxSetupRows}

InitSetup ==
    /\ InitSession
    /\ form \in SetupForms
    /\ PhaseIdle /\ PromptIdle /\ SpeakIdle /\ StoreIdle /\ ExtIdle

\* the submit button is pressed with the form as it stands
SubmitForm == handleSubmit(form)

NextSetup == SubmitForm

SpecSetup == InitSetup /\ [][NextSetup]_vars

\* row r of the form names a participant
ValidRow(r) == r.name # "" /\ r.university # ""

\* C11: a submit of the setup form whose list is empty, or holds a row with an
\* empty name or affiliation, leaves the roster unchanged; any other submit
\* stores exactly the rows given, in order, and sets speakerIndex to 0.
C11_InvalidFormIsRejected ==
    [][(page = "setup" /\ SubmitForm)
          => IF form = <<>> \/ \E i \in 1..Len(form) : ~ValidRow(form[i])
             THEN UNCHANGED teamVars
             ELSE members' = form /\ speakerIndex' = 0]_vars

\* ------------------------------------------------------------------ generatePrompt alone
\* the message lists of up to MaxMsgs messages
PromptMessages ==
    UNION {[1..n -> [role : {"user", "assistant"},
                     content : {<<>>, <<"ha", "i">>, <<"e", "e">>},
                     phase : {"intro_start"}]] : n \in 0..MaxMsgs}

InitPrompt ==
    /\ InitSession
    /\ FormIdle /\ PhaseIdle /\ SpeakIdle /\ StoreIdle /\ ExtIdle
    /\ promptCall \in [messages : PromptMessages, phase : Phases,
                       done : {FALSE}, prompt : {<<>>}, chatHistory : {<<>>}]

\* generatePrompt and buildChatHistory are called with the arguments drawn
CallGeneratePrompt ==
    /\ ~promptCall.done
    /\ promptCall' =
         [promptCall EXCEPT
            !.done = TRUE,
            !.prompt = generatePrompt(promptCall.messages, promptCall.phase),
            !.chatHistory = buildChatHistory(promptCall.messages,
                                             promptCall.phase)]
    /\ UNCHANGED <<sessionVars, extVars, phaseCall, form, speakCall, table, history, now>>

NextPrompt == CallGeneratePrompt

SpecPrompt == InitPrompt /\ [][NextPrompt]_vars

\* C12: for every message list, the empty one included, and every phase, the
\* turns generatePrompt returns and the turns buildChatHistory returns end
\* with a user-role turn.
C12_PromptEndsWithUser ==
    promptCall.done
    => /\ promptCall.prompt # <<>>
       /\ promptCall.prompt[Len(promptCall.prompt)].role = "user"
       /\ promptCall.chatHistory # <<>>
       /\ promptCall.chatHistory[Len(promptCall.chatHistory)].role = "user"

\* generatePrompt has returned for the empty message list
C12_Witness ==
    /\ promptCall.done
    /\ promptCall.messages = <<>>
    /\ Len(promptCall.prompt) = 3

\* C13: generatePrompt returns the persona turn, the phase-instruction turn,
\* then one turn per message in the original order (assistant as model, user
\* as user, the content untouched), and after them one empty user turn
\* exactly when the last of those turns is a model turn.
C13_PromptIsExact ==
    promptCall.done
    => LET p == promptCall.prompt
           m == promptCall.messages
           n == Len(m)
       IN  /\ Len(p) \in {n + 2, n + 3}
           /\ p[1] = [role |-> "model", text |-> SYSTEM_PROMPT]
           /\ p[2] = [role |-> "model",
                      text |-> getPhaseInstruction(promptCall.phase)]
           /\ \A i \in 1..n :
                 /\ p[i + 2].text = m[i].content
                 /\ (m[i].role = "assistant" => p[i + 2].role = "model")
                 /\ (m[i].role = "user" => p[i + 2].role = "user")
           /\ Len(p) = n + 3 <=> p[n + 2].role = "model"
           /\ Len(p) = n + 3 => p[n + 3] = [role |-> "user", text |-> <<>>]

\* generatePrompt has returned for a list of three messages that ends with a
\* user message: no turn is appended
C13_Witness ==
    /\ promptCall.done
    /\ Len(promptCall.messages) = 3
    /\ promptCall.messages[1].role = "assistant"
    /\ promptCall.messages[3].role = "user"
    /\ Len(promptCall.prompt) = 5

\* ------------------------------------------------------------------ phase of a turn
\* sendMessage passes its guard with a provider: lines 254-273 run
Submits ==
    /\ TimerFires(MaxAccepted)
    /\ accepted' = accepted + 1
    /\ Cardinality(calls') = Cardinality(calls) + 1

\* the invocation Submits has just suspended at generateContentStream
Submitted == CHOOSE c \in calls' : c \notin calls

\* lines 301-313 of invocation c: its assistant message is appended
AppendsReply(c) == StreamEnds(c)

\* C14: the user message, the phase instruction of the prompt and the
\* assistant message of an utterance carry the phase that is current when the
\* utterance is submitted, and currentPhase changes only after the assistant
\* message of the utterance was appended.
C14_TurnCarriesSubmitPhase ==
    [][/\ Submits
          => /\ messages'[Len(messages')].role = "user"
             /\ messages'[Len(messages')].phase = currentPhase
             /\ Submitted.prompt[2].text = getPhaseInstruction(currentPhase)
       /\ \A c \in calls :
             AppendsReply(c)
             => /\ messages'[Len(messages')].role = "assistant"
                /\ getPhaseInstruction(messages'[Len(messages')].phase)
                     = c.prompt[2].text
       /\ currentPhase' # currentPhase
          => \E c \in calls :
                /\ c \notin calls'
                /\ \/ c.pc \in {"voices", "speaking"}
                   \/ /\ c.pc = "streaming"
                      /\ messages' = Append(messages,
                             Msg("assistant", c.full, c.cl.currentPhase))]_vars

\* ------------------------------------------------------------------ sentence splitting alone
\* "Hello. How are you? Fine\n", character by character
HelloText ==
    <<"H", "e", "l", "l", "o", ".", " ", "H", "o", "w", " ", "a", "r", "e", " ",
      "y", "o", "u", "?", " ", "F", "i", "n", "e", "LF">>

\* the characters of the drawn texts: a letter, ASCII and full-width sentence
\* punctuation, a blank and a newline
TextChars == {"a", ".", "?", "KUTEN", " ", "LF"}

Texts ==
    {HelloText} \cup UNION {[1..n -> TextChars] : n \in 0..MaxText}

InitSpeech ==
    /\ InitSession
    /\ FormIdle /\ PhaseIdle /\ PromptIdle /\ StoreIdle /\ ExtIdle
    /\ speakCall \in [text : Texts, done : {FALSE}, units : {<<>>}]

\* lines 145-149 of speakText for the text drawn
SplitSentences ==
    /\ ~speakCall.done
    /\ speakCall' = [speakCall EXCEPT !.done = TRUE,
                                      !.units = sentences(speakCall.text)]
    /\ UNCHANGED <<sessionVars, extVars, phaseCall, form, promptCall, table, history, now>>

NextSpeech == SplitSentences

SpecSpeech == InitSpeech /\ [][NextSpeech]_vars

\* sentence-terminal punctuation, ASCII and full-width
SentenceTerminals == {".", "!", "?", "KUTEN", "ZEN_EXCL", "ZEN_QUES"}

\* C15: speakText's units are the pieces of the text between sentence-terminal
\* punctuation and newlines, trimmed, the empty ones dropped; the text
\* "Hello. How are you? Fine\n" yields exactly "Hello", "How are you", "Fine".
C15_SplitsAtSentenceEnds ==
    speakCall.done
    => /\ \A i \in 1..Len(speakCall.units) :
             /\ speakCall.units[i] # <<>>
             /\ trim(speakCall.units[i]) = speakCall.units[i]
             /\ \A k \in 1..Len(speakCall.units[i]) :
                   speakCall.units[i][k] \notin SentenceTerminals \cup {"LF"}
       /\ speakCall.text = HelloText
          => speakCall.units = << <<"H", "e", "l", "l", "o">>,
                                  <<"H", "o", "w", " ", "a", "r", "e", " ",
                                    "y", "o", "u">>,
                                  <<"F", "i", "n", "e">> >>

\* ------------------------------------------------------------------ one run of speakText
\* the utterances of run id that speechSynthesis holds
Queued(queue, id) == Cardinality({i \in 1..Len(queue) : queue[i] = id})

\* invocation c of sendMessage has returned / is what it becomes in this step
Gone(c) == \A d \in calls' : d.id # c.id
After(c) == CHOOSE d \in calls' : d.id = c.id

\* the loop of lines 167-204 for the opening message: the unit playing is the
\* only one queued, the next one is spoken when it ended or failed, and after
\* the last one speakText returns with isSpeaking false
OpeningLoop ==
    /\ opening.pc \in {"none", "voices"} /\ opening'.pc = "speaking"
       => opening'.units = sentences(INITIAL_MESSAGE)
    /\ opening.pc = "speaking"
       => /\ Queued(synthQueue, 0) = 1
          /\ \/ opening' = opening
             \/ /\ Head(synthQueue) = 0
                /\ IF Tail(opening.units) = <<>>
                   THEN opening'.pc = "done" /\ isSpeaking' = FALSE
                   ELSE /\ opening'.pc = "speaking"
                        /\ opening'.units = Tail(opening.units)
                        /\ Queued(synthQueue', 0) = 1

\* the same loop for the reply of every invocation of sendMessage
ReplyLoop ==
    \A c \in calls :
       /\ c.pc \in {"streaming", "voices"} /\ ~Gone(c) /\ After(c).pc = "speaking"
          => After(c).units = sentences(c.full)
       /\ c.pc = "speaking"
          => /\ Queued(synthQueue, c.id) = 1
             /\ \/ ~Gone(c) /\ After(c) = c
                \/ /\ Head(synthQueue) = c.id
                   /\ IF Tail(c.units) = <<>>
                      THEN Gone(c) /\ isSpeaking' = FALSE
                      ELSE /\ ~Gone(c)
                           /\ After(c).pc = "speaking"
                           /\ After(c).units = Tail(c.units)
                           /\ Queued(synthQueue', c.id) = 1

\* speakText returns without a unit to speak: the text has no sentence unit
\* (once the voices are there), or the text is empty (line 140)
ReturnsWithoutUnit(c) ==
    /\ \/ StreamEnds(c) /\ c.full # <<>>
       \/ ReplyVoices(c)
    /\ Gone(c)

ReturnsAtOnce(c) == StreamEnds(c) /\ c.full = <<>>

\* C16 as stated: within one speakText call every unit is attempted once and
\* in order, each after the previous one ended or failed, a failed unit does
\* not keep the later ones from playing, and isSpeaking is false when
\* speakText returns, whatever the path.
C16_SpeakTextLoop ==
    [][/\ OpeningLoop
       /\ ReplyLoop
       /\ \A c \in calls :
             ReturnsWithoutUnit(c) \/ ReturnsAtOnce(c) => isSpeaking' = FALSE]_vars

\* C16 amended: the same, with isSpeaking false at every return of a
\* speakText that got a non-empty text; for an empty text speakText returns
\* at line 140 and leaves isSpeaking as it is.
C16_SpeakTextLoopOfText ==
    [][/\ OpeningLoop
       /\ ReplyLoop
       /\ \A c \in calls :
             /\ ReturnsWithoutUnit(c) => isSpeaking' = FALSE
             /\ ReturnsAtOnce(c) => UNCHANGED isSpeaking]_vars

\* the opening speakText has gone through all its units and returned
C16_Witness ==
    /\ opening.pc = "done"
    /\ ~isSpeaking
    /\ Len(sentences(INITIAL_MESSAGE)) > 1

\* ------------------------------------------------------------------ forced stop
\* the reply of invocation c is the utterance playing
Playing(c) == c.pc = "speaking" /\ synthQueue # <<>> /\ Head(synthQueue) = c.id

\* lines 317-320 have run for invocation c: the phase is the one its
\* utterance leads to
PhaseCommitted(c) ==
    currentPhase = getNextPhase(c.cl.currentPhase, c.cl.userMessage)

\* C17: stopSpeaking during playback cancels the unit playing and nothing
\* else: the later units, currentPhase, speakerIndex and the message log stay
\* as they are; and the phase and roster update of the utterance whose reply
\* is playing is already committed when the stop happens.
C17_StopAfterCommit ==
    [][stopSpeaking
         => /\ UNCHANGED <<currentPhase, speakerIndex, messages>>
            /\ UNCHANGED <<opening, calls>>
            /\ \A c \in calls : Playing(c) => PhaseCommitted(c)]_vars

\* ------------------------------------------------------------------ message log
IsPrefix(a, b) == Len(a) <= Len(b) /\ SubSeq(b, 1, Len(a)) = a

\* reducer actions of a type other than ADD_MESSAGE
OtherActions ==
    {[type |-> "CLEAR_MESSAGES"],
     [type |-> "REMOVE_MESSAGE", message |-> Msg("user", U_PLAIN, "intro_start")]}

\* messages a dispatch may carry
SomeMessages ==
    {Msg("user", U_PLAIN, "intro_start"), Msg("assistant", CHUNK, "closing")}

\* C18: the message log is append-only: in every step the log before is a
\* prefix of the log after; on every log the session reaches, ADD_MESSAGE
\* appends exactly its message at the end and a reducer action of any other
\* type leaves the log unchanged.
C18_LogIsAppendOnly ==
    /\ [][IsPrefix(messages, messages')]_vars
    /\ [](/\ \A m \in SomeMessages :
                dispatch(messages, ADD_MESSAGE(m)) = Append(messages, m)
          /\ \A a \in OtherActions : dispatch(messages, a) = messages)

\* the opening message, an utterance and its reply have been appended
C18_Witness ==
    /\ Len(messages) >= 3
    /\ messages[1].content = INITIAL_MESSAGE
    /\ messages[2].role = "user"
    /\ messages[3].role = "assistant"

\* ------------------------------------------------------------------ the message store alone
Conversations == {"conv1", "conv2"}

\* uuidv4(): random, unrelated to the time of the call
Uuids == 1..MaxUuid

\* the items of one conversation
ItemsOf(items, conversationId) ==
    {items[i] : i \in {k \in 1..Len(items) :
                         items[k].conversationId = conversationId}}

\* a Query with ScanIndexForward: true returns the items of the partition in
\* ascending order of the sort key; the key of ChatHistory is
\* (conversationId, messageId)
RECURSIVE ScanIndexForward(_)
ScanIndexForward(items) ==
    IF items = {} THEN <<>>
    ELSE LET first == CHOOSE x \in items :
                         \A y \in items : x.messageId <= y.messageId
         IN  <<first>> \o ScanIndexForward(items \ {first})

QueryCommand(conversationId) == ScanIndexForward(ItemsOf(table, conversationId))

InitStore ==
    /\ InitSession
    /\ FormIdle /\ PhaseIdle /\ PromptIdle /\ SpeakIdle
    /\ StoreIdle /\ ExtIdle

\* a getHistory that removes what it has read
getHistoryDrains(conversationId) ==
    /\ Len(history) < MaxReads
    /\ history' = Append(history, [conversationId |-> conversationId,
                                   puts  |-> Len(table),
                                   Items |-> QueryCommand(conversationId)])
    /\ table' = SelectSeq(table, LAMBDA it : it.conversationId # conversationId)
    /\ UNCHANGED <<sessionVars, extVars, phaseCall, form, promptCall, speakCall, now>>

\* saveMessage: a PutCommand of the message with a fresh uuid; the caller
\* passes Date.now() as the timestamp
saveMessage(conversationId, role) ==
    /\ Len(table) < MaxItems
    /\ \E messageId \in Uuids \ {table[i].messageId : i \in 1..Len(table)},
          timestamp \in {now, now + 1} :
          /\ now' = timestamp
          /\ table' = Append(table,
                 [conversationId |-> conversationId,
                  messageId      |-> messageId,
                  role           |-> role,
                  content        |-> U_PLAIN,
                  timestamp      |-> timestamp,
                  phase          |-> "intro_start"])
    /\ UNCHANGED <<sessionVars, extVars, phaseCall, form, promptCall, speakCall, history>>

\* getHistory: the Items of the Query; puts is the number of PutCommands the
\* table had received when the Query ran
getHistory(conversationId) ==
    /\ Len(history) < MaxReads
    /\ history' = Append(history, [conversationId |-> conversationId,
                                   puts  |-> Len(table),
                                   Items |-> QueryCommand(conversationId)])
    /\ UNCHANGED <<sessionVars, extVars, phaseCall, form, promptCall, speakCall, table, now>>

NextStore ==
    \/ \E c \in Conversations, role \in {"user", "assistant"} : saveMessage(c, role)
    \/ \E c \in Conversations : getHistory(c)

SpecStore == InitStore /\ [][NextStore]_vars

\* C19: two loads of the history of one conversationId with no write in
\* between return identical ordered sequences, and a load leaves the store
\* unchanged.
C19_LoadTwiceIsSame ==
    /\ [](\A i, j \in 1..Len(history) :
             /\ history[i].conversationId = history[j].conversationId
             /\ history[i].puts = history[j].puts
             => history[i].Items = history[j].Items)
    /\ [][history' # history => table' = table]_vars

\* one conversation with two messages was loaded twice in a row
C19_Witness ==
    /\ Len(history) = 2
    /\ history[1].conversationId = history[2].conversationId
    /\ history[1].puts = history[2].puts
    /\ Len(history[2].Items) = 2

\* the messages of a conversation among the first n put, in the order saved
SavedOrder(conversationId, n) ==
    SelectSeq(SubSeq(table, 1, n),
              LAMBDA it : it.conversationId = conversationId)

\* C20: getHistory returns the messages saved on a conversationId in
\* ascending order of timestamp, which is the order they were saved in.
C20_HistoryInSavedOrder ==
    \A k \in 1..Len(history) :
       /\ history[k].Items = SavedOrder(history[k].conversationId, history[k].puts)
       /\ \A i, j \in 1..Len(history[k].Items) :
             i < j => history[k].Items[i].timestamp <= history[k].Items[j].timestamp

\* ------------------------------------------------------------------ blank utterance
\* sendMessage is called with a userMessage that is empty after trim
BlankSend == TimerFires(MaxAccepted) /\ trim(Head(timers).userMessage) = <<>>

\* C21: sendMessage with an empty or whitespace-only utterance is a no-op: no
\* message is appended, no model request is made, and the phase, speakerIndex
\* and the loading flags stay as they are.
C21_BlankSendIsNoOp ==
    [][BlankSend
         => UNCHANGED <<messages, calls, accepted, currentPhase, speakerIndex,
                        isLoading, isStreaming, userMessage>>]_vars

\* the timeout of the first recognition result has fired and its sendMessage
\* returned at the guard
C21_Witness ==
    /\ results = 1
    /\ timers = <<>>
    /\ accepted = 0
    /\ Len(messages) = 1

\* ------------------------------------------------------------------ the roster across reloads
\* Number.prototype.toString: the decimal digits, "-" in front of a negative
DigitChars == <<"0", "1", "2", "3", "4", "5", "6", "7", "8", "9">>

RECURSIVE digits(_)
digits(n) ==
    IF n < 10 THEN <<DigitChars[n + 1]>>
    ELSE Append(digits(n \div 10), DigitChars[(n % 10) + 1])

toString(n) == IF n < 0 THEN <<"-">> \o digits(-n) ELSE digits(n)

\* parseInt(s, 10) of a string of that form
digitValue(ch) == CHOOSE d \in 0..9 : DigitChars[d + 1] = ch

RECURSIVE parseDigits(_, _)
parseDigits(s, acc) ==
    IF s = <<>> THEN acc
    ELSE parseDigits(Tail(s), acc * 10 + digitValue(Head(s)))

parseInt(s) ==
    IF Head(s) = "-" THEN -parseDigits(Tail(s), 0) ELSE parseDigits(s, 0)

\* JSON.stringify of Member[]: the brackets and, for each member, its name
\* and its university
RECURSIVE stringifyMembers(_)
stringifyMembers(ms) ==
    IF ms = <<>> THEN <<>>
    ELSE <<Head(ms).name, Head(ms).university>> \o stringifyMembers(Tail(ms))

JSONstringify(ms) == <<"[">> \o stringifyMembers(ms) \o <<"]">>

JSONparse(text) ==
    [i \in 1..((Len(text) - 2) \div 2) |->
        [name |-> text[2 * i], university |-> text[2 * i + 1]]]

\* the rosters the setup form is submitted with
Rosters ==
    {<<[name |-> "yamada", university |-> "todai"]>>,
     <<[name |-> "yamada", university |-> "todai"],
       [name |-> "sato", university |-> "todai"]>>}

\* a render of TeamProvider is pending
ProviderStale ==
    members # provider.members \/ speakerIndex # provider.speakerIndex

\* The first commit after the page was loaded.  The effects of ChatPage (the
\* child) run before those of TeamProvider: the redirect effect sees the initial
\* empty members.  Then TeamProvider's effects run in their order: the restore
\* effect reads localStorage and sets the state, the two save effects write the
\* values of this render.
Mount ==
    /\ ~provider.mounted
    /\ provider' = [mounted |-> TRUE, members |-> members,
                    speakerIndex |-> speakerIndex]
    /\ page' = IF page = "chat" /\ Len(members) = 0 THEN "setup" ELSE page
    /\ members' = IF localStorage.team_members # Absent
                  THEN JSONparse(localStorage.team_members) ELSE members
    /\ speakerIndex' = IF localStorage.speaker_index # Absent
                       THEN parseInt(localStorage.speaker_index)
                       ELSE speakerIndex
    /\ localStorage' = [team_members  |-> JSONstringify(members),
                        speaker_index |-> toString(speakerIndex)]
    /\ UNCHANGED <<audio, ttsVars, chatVars, rendered, recognition, timers, calls, opening,
                   synthQueue, results, importing, voicesLoaded, accepted,
                   advances, phaseCall, form, promptCall, speakCall, table,
                   history, now, beforeReload>>

\* a later commit of TeamProvider: the save effect of each value that changed
\* writes it, and the redirect effect of ChatPage runs if members changed
Commit ==
    /\ provider.mounted
    /\ ProviderStale
    /\ provider' = [mounted |-> TRUE, members |-> members,
                    speakerIndex |-> speakerIndex]
    /\ page' = IF /\ page = "chat"
                  /\ members # provider.members
                  /\ Len(members) = 0
               THEN "setup" ELSE page
    /\ localStorage' =
         [team_members  |-> IF members # provider.members
                            THEN JSONstringify(members)
                            ELSE localStorage.team_members,
          speaker_index |-> IF speakerIndex # provider.speakerIndex
                            THEN toString(speakerIndex)
                            ELSE localStorage.speaker_index]
    /\ UNCHANGED <<audio, ttsVars, teamVars, chatVars, rendered, recognition, timers, calls,
                   opening, synthQueue, results, importing, voicesLoaded,
                   accepted, advances, phaseCall, form, promptCall, speakCall,
                   table, history, now, beforeReload>>

\* the setup form is submitted with a roster
Submit(rows) == provider.mounted /\ handleSubmit(rows)

\* sendMessage of the chat page calls goToNextSpeaker (lines 322-324)
Advance ==
    /\ page = "chat"
    /\ provider.mounted
    /\ speakerIndex < MaxIndex
    /\ speakerIndex' = goToNextSpeaker([prev |-> speakerIndex,
                                        rendered |-> provider.speakerIndex])
    /\ advances' = advances + 1
    /\ UNCHANGED <<audio, ttsVars, page, members, chatVars, rendered, recognition, timers,
                   calls, opening, synthQueue, results, importing,
                   voicesLoaded, accepted, phaseCall, form, promptCall,
                   speakCall, table, history, now, localStorage, provider,
                   beforeReload>>

\* the user reloads the page: every component starts again with its initial
\* state on the same route, localStorage stays
Reload ==
    /\ beforeReload.reloads < MaxReloads
    /\ beforeReload' = [reloads |-> beforeReload.reloads + 1,
                        members |-> members, speakerIndex |-> speakerIndex]
    /\ members' = <<>>
    /\ speakerIndex' = -1
    /\ provider' = NoProvider
    /\ UNCHANGED <<audio, ttsVars, page, chatVars, rendered, recognition, timers, calls,
                   opening, synthQueue, results, importing, voicesLoaded,
                   accepted, advances, phaseCall, form, promptCall, speakCall,
                   table, history, now, localStorage>>

InitReload ==
    /\ InitSession
    /\ FormIdle /\ PhaseIdle /\ PromptIdle /\ SpeakIdle /\ StoreIdle
    /\ ReloadIdle /\ AudioIdle /\ TtsIdle

NextReload ==
    \/ Mount
    \/ Commit
    \/ \E rows \in Rosters : Submit(rows)
    \/ Advance
    \/ Reload

SpecReload == InitReload /\ [][NextReload]_vars

\* the restore effect runs after a reload
Restores == Mount /\ beforeReload.reloads > 0

\* C22: the roster survives a reload: whenever the page is reloaded, the
\* participants and the speakerIndex restored from localStorage are the ones
\* the session had immediately before the reload.
C22_RosterSurvivesReload ==
    [][Restores => /\ members' = beforeReload.members
                   /\ speakerIndex' = beforeReload.speakerIndex]_vars

\* localStorage holds a roster with at least one participant
RosterStored ==
    /\ localStorage.team_members # Absent
    /\ Len(JSONparse(localStorage.team_members)) > 0

\* router.replace('/setup') of the chat page's redirect effect
Redirects == page = "chat" /\ page' = "setup"

\* C28: the chat page redirects to the setup flow if and only if the session
\* has no roster: a commit of the chat page with an empty roster and none
\* stored redirects, and with a non-empty roster in localStorage loading or
\* reloading the chat page never redirects, not even before the stored roster
\* is restored into the state.
C28_RedirectIffNoRoster ==
    [][/\ Redirects => ~RosterStored
       /\ (Mount /\ page = "chat" /\ ~RosterStored) => Redirects]_vars

\* ------------------------------------------------------------------ speakText with audio elements
\* new Audio() with its object URL, pushed to audioObjects and started
NewAudio == [playing |-> TRUE, src |-> TRUE, revoked |-> FALSE, listeners |-> TRUE]

\* the finally of speakText: pause, src = '', revokeObjectURL for every
\* element of audioObjects
releaseAll(objs) ==
    [i \in 1..Len(objs) |->
        [objs[i] EXCEPT !.playing = FALSE, !.src = FALSE, !.revoked = TRUE]]

\* the loop goes on with the next unit, or is over: finally, and speakText
\* returns
nextUnit(objs) ==
    IF audio.units > 1
    THEN /\ audio' = [pc |-> "fetching", units |-> audio.units - 1,
                      audioObjects |-> objs]
         /\ UNCHANGED isSpeaking
    ELSE /\ audio' = [pc |-> "returned", units |-> 0,
                      audioObjects |-> releaseAll(objs)]
         /\ isSpeaking' = FALSE

\* what an action of this speakText leaves alone
AudioFrame ==
    UNCHANGED <<page, teamVars, userMessage, isLoading, isStreaming, isListening,
                genAI, currentPhase, messages, rendered, recognition, timers,
                calls, opening, synthQueue, results, importing, voicesLoaded,
                accepted, advances, phaseCall, form, promptCall, speakCall,
                table, history, now, reloadVars, ttsVars>>

\* speakText(text) with n sentence units: setIsSpeaking(true), the first POST
\* to /api/tts is sent
speakTextAudio(n) ==
    /\ audio.pc = "none"
    /\ audio' = [pc |-> "fetching", units |-> n, audioObjects |-> <<>>]
    /\ isSpeaking' = TRUE
    /\ AudioFrame

\* the POST fails: the inner catch, continue
FetchFails ==
    /\ audio.pc = "fetching"
    /\ nextUnit(audio.audioObjects)
    /\ AudioFrame

\* the POST answers: the element is created and audio.play() called
FetchDone ==
    /\ audio.pc = "fetching"
    /\ audio' = [audio EXCEPT !.pc = "playing",
                              !.audioObjects = Append(@, NewAudio)]
    /\ UNCHANGED isSpeaking
    /\ AudioFrame

\* the element playing
current == Len(audio.audioObjects)

\* the promise of audio.play() rejects: reject, nothing else
PlayRejected ==
    /\ audio.pc = "playing"
    /\ nextUnit([audio.audioObjects EXCEPT ![current].playing = FALSE])
    /\ AudioFrame

\* handleEnded: the listeners are removed, the URL is revoked, resolve
handleEnded ==
    /\ audio.pc = "playing"
    /\ audio.audioObjects[current].playing
    /\ nextUnit([audio.audioObjects EXCEPT ![current].playing = FALSE,
                                           ![current].listeners = FALSE,
                                           ![current].revoked = TRUE])
    /\ AudioFrame

\* handleError: the listeners are removed, the URL is revoked, reject
handleError ==
    /\ audio.pc = "playing"
    /\ nextUnit([audio.audioObjects EXCEPT ![current].playing = FALSE,
                                           ![current].listeners = FALSE,
                                           ![current].revoked = TRUE])
    /\ AudioFrame

\* stopSpeaking of this page: audioRef is the hidden <audio> element of the
\* page, never an element speakText created; pausing it stops nothing
stopSpeakingAudioRef ==
    /\ audio.pc \in {"fetching", "playing"}
    /\ isSpeaking
    /\ isSpeaking' = FALSE
    /\ UNCHANGED audio
    /\ AudioFrame

InitAudio ==
    /\ InitSession
    /\ FormIdle /\ PhaseIdle /\ PromptIdle /\ SpeakIdle /\ StoreIdle
    /\ ReloadIdle /\ AudioIdle /\ TtsIdle

NextAudio ==
    \/ \E n \in 1..MaxUnits : speakTextAudio(n)
    \/ FetchFails
    \/ FetchDone
    \/ PlayRejected
    \/ handleEnded
    \/ handleError
    \/ stopSpeakingAudioRef

SpecAudio == InitAudio /\ [][NextAudio]_vars

Released(o) == ~o.playing /\ ~o.src /\ o.revoked

\* C23: every audio element speakText creates for a unit is released
\* (playback stopped, source detached, object URL revoked) when the unit is
\* left, be it by the end of the playback, a playback error or a forced stop,
\* and after speakText returned no element is playing or holds its source.
C23_AudioIsReleased ==
    /\ [][/\ (audio.pc = "playing" /\ audio'.pc # "playing")
             => Released(audio'.audioObjects[current])
          /\ (stopSpeakingAudioRef /\ audio.pc = "playing")
             => Released(audio'.audioObjects[current])]_vars
    /\ [](audio.pc = "returned"
          => \A i \in 1..Len(audio.audioObjects) : Released(audio.audioObjects[i]))

\* ------------------------------------------------------------------ back to idle
\* invocation c of sendMessage returns in this step
Returns(c) == c \in calls /\ Gone(c)

\* C24: every accepted sendMessage brings the page back to idle: when it
\* returns, isLoading and isStreaming are false, whether the model call
\* succeeded, failed before the stream started or failed in the middle of the
\* stream, and whether the speech units succeeded or failed.
C24_ReturnsToIdle ==
    [][\A c \in calls : Returns(c) => ~isLoading' /\ ~isStreaming']_vars

\* ------------------------------------------------------------------ prompt of a turn
\* C25: the prompt sent to the model for a submitted utterance has that
\* utterance as its final user-role turn: the message list handed to
\* generatePrompt includes the user message the same sendMessage call appended.
C25_PromptEndsWithUtterance ==
    [][Submits
         => LET prompt == Submitted.prompt
                last   == prompt[Len(prompt)]
            IN  /\ last.role = "user"
                /\ last.text = messages'[Len(messages')].content
                /\ last.text = Head(timers).userMessage]_vars

\* ------------------------------------------------------------------ the introductions
\* rosters of one, two and three participants
IntroRosters ==
    {<<[name |-> "yamada", university |-> "todai"]>>,
     <<[name |-> "yamada", university |-> "todai"],
       [name |-> "sato", university |-> "todai"]>>,
     <<[name |-> "yamada", university |-> "todai"],
       [name |-> "sato", university |-> "todai"],
       [name |-> "suzuki", university |-> "todai"]>>}

\* The session with a provider, closing-keyword utterances only and replies
\* that stream no text, followed for MaxIntro utterances.
NextIntro ==
    \/ \E rows \in IntroRosters : handleSubmit(rows)
    \/ Render
    \/ (ImportDone /\ genAI' = TRUE)
    \/ toggleListening
    \/ onresult(U_CLOSE, MaxIntroResults)
    \/ TimerFires(MaxIntro)
    \/ \E c \in calls : StreamOpens(c)
    \/ \E c \in calls : StreamEnds(c)

SpecIntro == Init /\ [][NextIntro]_vars

\* C26: whatever the size of the roster and the utterances, the phase is
\* icebreak_start, whose instruction says that everyone's introduction is
\* over, only when speakerIndex >= the number of participants.
C26_IcebreakAfterAllIntroductions ==
    currentPhase = "icebreak_start" => speakerIndex >= Len(members)

\* ------------------------------------------------------------------ transcript of a turn
\* the sendMessage the timeout of the latest onresult will call
Scheduled == timers'[Len(timers')]

\* C27: when the recognizer delivers the final transcript T, the sendMessage
\* call scheduled for 500 ms later submits one user message with the content
\* T, not an empty text and not the text of an earlier segment: the call
\* scheduled is one whose userMessage is T, and when it runs it appends the
\* user message with that content.
C27_SubmitsTheTranscript ==
    [][/\ \A T \in Transcripts :
             (trim(T) # <<>> /\ onresult(T, MaxResults))
             => Scheduled.userMessage = T
       /\ Submits
          => messages' = Append(messages,
                 Msg("user", Head(timers).userMessage,
                     Head(timers).currentPhase))]_vars

\* ------------------------------------------------------------------ api/tts
CACHE_TTL == 5 * 60 * 1000
MAX_CACHE_SIZE == 100
CONNECTION_CHECK_INTERVAL == 30 * 1000

\* one step of the clock, in ms
TickMs == 100000

\* a request body without text
NoText == 0

\* the audio VOICEVOX synthesizes for a text
wav(text) == <<"wav", text>>

\* The cache after k requests for the texts 1..k, one per millisecond, the
\* last one at ServerStart.  seq is bookkeeping, not part of the Map:
\* the rank of the moment the key was added.
Prefilled(k) ==
    [i \in 1..k |-> [text |-> i, data |-> wav(i),
                     timestamp |-> ServerStart - k + i, seq |-> i]]

\* the texts requested: none, the oldest of a full cache, a new one
PostTexts == {NoText, 1, MAX_CACHE_SIZE + 1}

indexOfKey(cache, text) ==
    IF \E i \in 1..Len(cache) : cache[i].text = text
    THEN CHOOSE i \in 1..Len(cache) : cache[i].text = text
    ELSE 0

\* Map.prototype.delete
deleteKey(cache, text) == SelectSeq(cache, LAMBDA e : e.text # text)

nextSeq(cache) ==
    IF cache = <<>> THEN 1
    ELSE 1 + (CHOOSE n \in {cache[i].seq : i \in 1..Len(cache)} :
                 \A i \in 1..Len(cache) : cache[i].seq <= n)

\* Map.prototype.set: the value of an existing key is replaced where it is, a
\* new key goes to the end
mapSet(cache, text, data, timestamp) ==
    LET i == indexOfKey(cache, text)
    IN  IF i > 0
        THEN [cache EXCEPT ![i].data = data, ![i].timestamp = timestamp]
        ELSE Append(cache, [text |-> text, data |-> data,
                            timestamp |-> timestamp, seq |-> nextSeq(cache)])

\* a getCachedTTS that answers from an entry of any age
lookupAnyAge(cache, text, t) == indexOfKey(cache, text)

\* getCachedTTS: the entry to answer from, index 0 for null
lookup(cache, text, t) ==
    LET i == indexOfKey(cache, text)
    IN  IF i = 0 THEN 0
        ELSE IF t - cache[i].timestamp > CACHE_TTL THEN 0
        ELSE i

\* getCachedTTS: the cache it leaves, an expired entry deleted
afterLookup(cache, text, t) ==
    LET i == indexOfKey(cache, text)
    IN  IF i > 0 /\ t - cache[i].timestamp > CACHE_TTL
        THEN deleteKey(cache, text)
        ELSE cache

\* a setCachedTTS that makes room by deleting the newest key
setCachedTTSEvictsLast(cache, text, data, t) ==
    mapSet(IF Len(cache) >= MAX_CACHE_SIZE
           THEN SubSeq(cache, 1, Len(cache) - 1) ELSE cache,
           text, data, t)

setCachedTTS(cache, text, data, t) ==
    mapSet(IF Len(cache) >= MAX_CACHE_SIZE THEN Tail(cache) ELSE cache,
           text, data, t)

\* what an action of the route leaves alone
TtsFrame ==
    UNCHANGED <<sessionVars, phaseCall, form, promptCall, speakCall, table,
                history, now, reloadVars, audio>>

reply(status, cache, age, text) ==
    ttsReply' = [count |-> ttsReply.count + 1, status |-> status,
                 cache |-> cache, age |-> age, text |-> text]

posts == ttsReply.count + Cardinality(ttsRequests)

\* a POST arrives: lines 66-93 up to the first await on the network
POST(text) ==
    /\ posts < MaxPosts
    /\ Cardinality(ttsRequests) < MaxInFlightTts
    /\ IF text = NoText
       THEN /\ reply(400, "none", 0, text)
            /\ UNCHANGED <<ttsCache, ttsRequests>>
       ELSE LET hit == lookup(ttsCache, text, ttsNow)
            IN  IF hit > 0
                THEN /\ reply(200, "HIT", ttsNow - ttsCache[hit].timestamp, text)
                     /\ UNCHANGED <<ttsCache, ttsRequests>>
                ELSE /\ ttsCache' = afterLookup(ttsCache, text, ttsNow)
                     /\ IF ttsNow - voicevoxConnectionStatus.lastChecked
                              < CONNECTION_CHECK_INTERVAL
                        THEN IF voicevoxConnectionStatus.isConnected
                             THEN /\ ttsRequests' = ttsRequests \cup
                                       {[id |-> posts + 1, text |-> text,
                                         pc |-> "audio_query", now |-> ttsNow]}
                                  /\ UNCHANGED ttsReply
                             ELSE /\ reply(503, "none", 0, text)
                                  /\ UNCHANGED ttsRequests
                        ELSE /\ ttsRequests' = ttsRequests \cup
                                  {[id |-> posts + 1, text |-> text,
                                    pc |-> "version", now |-> ttsNow]}
                             /\ UNCHANGED ttsReply
    /\ UNCHANGED <<ttsNow, voicevoxConnectionStatus>>
    /\ TtsFrame

\* checkVoicevoxConnection: axios.get('/version') resolves or rejects
VersionDone(r, ok) ==
    /\ r.pc = "version"
    /\ voicevoxConnectionStatus' = [isConnected |-> ok, lastChecked |-> r.now]
    /\ IF ok
       THEN /\ ttsRequests' = (ttsRequests \ {r}) \cup
                                {[r EXCEPT !.pc = "audio_query"]}
            /\ UNCHANGED ttsReply
       ELSE /\ ttsRequests' = ttsRequests \ {r}
            /\ reply(503, "none", 0, r.text)
    /\ UNCHANGED <<ttsCache, ttsNow>>
    /\ TtsFrame

\* axios.post('/audio_query') resolves or rejects
QueryDone(r, ok) ==
    /\ r.pc = "audio_query"
    /\ IF ok
       THEN /\ ttsRequests' = (ttsRequests \ {r}) \cup
                                {[r EXCEPT !.pc = "synthesis"]}
            /\ UNCHANGED ttsReply
       ELSE /\ ttsRequests' = ttsRequests \ {r}
            /\ reply(500, "none", 0, r.text)
    /\ UNCHANGED <<ttsCache, ttsNow, voicevoxConnectionStatus>>
    /\ TtsFrame

\* axios.post('/synthesis') resolves, the audio is cached and returned, or
\* rejects
SynthesisDone(r, ok) ==
    /\ r.pc = "synthesis"
    /\ ttsRequests' = ttsRequests \ {r}
    /\ IF ok
       THEN /\ ttsCache' = setCachedTTS(ttsCache, r.text, wav(r.text), ttsNow)
            /\ reply(200, "MISS", 0, r.text)
       ELSE /\ reply(500, "none", 0, r.text)
            /\ UNCHANGED ttsCache
    /\ UNCHANGED <<ttsNow, voicevoxConnectionStatus>>
    /\ TtsFrame

\* time passes
Tick ==
    /\ ttsNow < ServerStart + MaxTicks * TickMs
    /\ ttsNow' = ttsNow + TickMs
    /\ UNCHANGED <<ttsCache, ttsRequests, ttsReply, voicevoxConnectionStatus>>
    /\ TtsFrame

\* the route as loaded, or after MAX_CACHE_SIZE requests
InitTts ==
    /\ InitSession
    /\ FormIdle /\ PhaseIdle /\ PromptIdle /\ SpeakIdle /\ StoreIdle
    /\ ReloadIdle /\ AudioIdle
    /\ ttsNow = ServerStart
    /\ ttsRequests = {}
    /\ ttsReply = NoReply
    /\ \/ /\ ttsCache = <<>>
          /\ voicevoxConnectionStatus = [isConnected |-> FALSE, lastChecked |-> 0]
       \/ /\ ttsCache = Prefilled(MAX_CACHE_SIZE)
          /\ voicevoxConnectionStatus =
               [isConnected |-> TRUE,
                lastChecked |-> ServerStart - MAX_CACHE_SIZE]

NextTts ==
    \/ \E text \in PostTexts : POST(text)
    \/ \E r \in ttsRequests, ok \in BOOLEAN : VersionDone(r, ok)
    \/ \E r \in ttsRequests, ok \in BOOLEAN : QueryDone(r, ok)
    \/ \E r \in ttsRequests, ok \in BOOLEAN : SynthesisDone(r, ok)
    \/ Tick

SpecTts == InitTts /\ [][NextTts]_vars

\* the entry whose key was added before the key of every other entry
Earliest(cache) ==
    CHOOSE e \in {cache[i] : i \in 1..Len(cache)} :
       \A i \in 1..Len(cache) : e.seq <= cache[i].seq

Keys(cache) == {cache[i].text : i \in 1..Len(cache)}

Entries(cache) == {cache[i] : i \in 1..Len(cache)}

\* C29: the cache never holds more than MAX_CACHE_SIZE entries, and storing a
\* text while the cache is full removes the entry that was inserted earliest.
C29_CacheIsBoundedFifo ==
    /\ [](Len(ttsCache) <= MAX_CACHE_SIZE)
    /\ [][\A r \in ttsRequests :
             (SynthesisDone(r, TRUE) /\ Len(ttsCache) >= MAX_CACHE_SIZE)
             => /\ r.text \in Keys(ttsCache')
                /\ Keys(ttsCache) \ Keys(ttsCache')
                     \subseteq {Earliest(ttsCache).text}
                /\ Earliest(ttsCache).text # r.text
                   => Earliest(ttsCache).text \notin Keys(ttsCache')]_vars

\* a text was stored in the full cache: the first text is gone
C29_Witness ==
    /\ Len(ttsCache) = MAX_CACHE_SIZE
    /\ 1 \notin Keys(ttsCache)
    /\ MAX_CACHE_SIZE + 1 \in Keys(ttsCache)

\* a response was sent
Answers == ttsReply'.count = ttsReply.count + 1

Fails == Answers /\ ttsReply'.status \in {400, 500, 503}

\* the request finds an entry of its text older than CACHE_TTL
FindsExpired(text) ==
    /\ POST(text)
    /\ \E i \in 1..Len(ttsCache) :
          /\ ttsCache[i].text = text
          /\ ttsNow - ttsCache[i].timestamp > CACHE_TTL

\* the cache is the same but for an expired entry of the text, which is gone
OnlyExpiredRemoved(text) ==
    \/ ttsCache' = ttsCache
    \/ /\ ttsCache' = deleteKey(ttsCache, text)
       /\ \A i \in 1..Len(ttsCache) :
             ttsCache[i].text = text
             => ttsNow - ttsCache[i].timestamp > CACHE_TTL

\* C30: no response comes from a cache entry older than CACHE_TTL: a request
\* that finds an expired entry removes it and is not answered from the cache;
\* the cache holds only synthesized audio, stored when a synthesis succeeds;
\* a request that fails stores nothing, it removes at most the expired entry
\* of its text.
C30_FreshHitsSynthesizedAudio ==
    /\ [](/\ ttsReply.cache = "HIT" => ttsReply.age <= CACHE_TTL
          /\ \A i \in 1..Len(ttsCache) :
                ttsCache[i].data = wav(ttsCache[i].text))
    /\ [][/\ \A text \in PostTexts :
                FindsExpired(text)
                => /\ text \notin Keys(ttsCache')
                   /\ ~(Answers /\ ttsReply'.cache = "HIT")
          /\ ~(Entries(ttsCache') \subseteq Entries(ttsCache))
             => \E r \in ttsRequests : SynthesisDone(r, TRUE)
          /\ Fails => OnlyExpiredRemoved(ttsReply'.text)]_vars

\* C30 as stated: a request that fails leaves the cache as it was.
C30_FailedRequestKeepsCache ==
    [][Fails => ttsCache' = ttsCache]_vars

\* the first text was found expired, synthesized again and stored at the end
C30_Witness ==
    /\ ttsReply.status = 200
    /\ ttsReply.cache = "MISS"
    /\ ttsReply.text = 1
    /\ ttsNow - ServerStart > CACHE_TTL
    /\ Len(ttsCache) = MAX_CACHE_SIZE
    /\ ttsCache[Len(ttsCache)].text = 1

====
